---- MODULE Spec2Model ----
(***************************************************************************)
(* MeSH2OBO.ipynb: conversion of the MeSH ASCII distribution to OBO.       *)
(*                                                                         *)
(* Text read from the input file is a sequence of one-character strings,   *)
(* so that strip, partition, the regular expressions and len() are         *)
(* computed on characters.  The display names of the hard-coded top-level  *)
(* table are never inspected by the code and are kept as one token each.   *)
(* The cells run in notebook order and an uncaught exception stops the     *)
(* run.                                                                    *)
(***************************************************************************)
EXTENDS Integers, Sequences, FiniteSets, TLC

VARIABLES file, pc, pass, ti, pos, entry, yielded, parentList, out,
          inOpen, foOpen, err

vars == <<file, pc, pass, ti, pos, entry, yielded, parentList, out,
          inOpen, foOpen, err>>

\* ------------------------------------------------------------------------
\* Bounds of the explored inputs
\* ------------------------------------------------------------------------
MaxRecords == 2

MaxLines == 4

\* ------------------------------------------------------------------------
\* Text helpers
\* ------------------------------------------------------------------------
SP == " "

DOT == "."

BAR == "|"

Separator == <<" ", "=", " ">>

Sentinel == <<"*", "N", "E", "W", "R", "E", "C", "O", "R", "D">>

K_UI == <<"U", "I">>

K_MH == <<"M", "H">>

K_MN == <<"M", "N">>

K_ENTRY == <<"E", "N", "T", "R", "Y">>

\* line.strip(): leading and trailing white space removed
RECURSIVE LStrip(_)
LStrip(s) == IF s # <<>> /\ Head(s) = SP THEN LStrip(Tail(s)) ELSE s

RECURSIVE RStrip(_)
RStrip(s) ==
    IF s # <<>> /\ s[Len(s)] = SP THEN RStrip(SubSeq(s, 1, Len(s) - 1)) ELSE s

Strip(s) == RStrip(LStrip(s))

\* the indices at which `pat` occurs in s
Occurrences(s, pat) ==
    {i \in 1..(Len(s) - Len(pat) + 1) : SubSeq(s, i, i + Len(pat) - 1) = pat}

Min(S) == CHOOSE m \in S : \A n \in S : m <= n

Max(S) == CHOOSE m \in S : \A n \in S : m >= n

\* line.partition(" = "): split at the FIRST occurrence of the separator;
\* without a separator the whole line is the head and the rest is empty
Partition(s) ==
    LET occ == Occurrences(s, Separator) IN
    IF occ = {} THEN [key |-> s, sep |-> <<>>, value |-> <<>>]
    ELSE LET i == Min(occ) IN
         [key   |-> SubSeq(s, 1, i - 1),
          sep   |-> Separator,
          value |-> SubSeq(s, i + Len(Separator), Len(s))]

\* re.sub('\|.*', '', syn): everything from the first `|` on is removed
StripQualifier(syn) ==
    LET bars == {i \in 1..Len(syn) : syn[i] = BAR} IN
    IF bars = {} THEN syn ELSE SubSeq(syn, 1, Min(bars) - 1)

\* re.sub('\.[^\.]+$', '', id): a final `.` followed by ONE OR MORE
\* non-dot characters is removed; when the last dot is the last character
\* nothing matches and the string is returned unchanged
StripLastSegment(id) ==
    LET dots == {i \in 1..Len(id) : id[i] = DOT} IN
    IF dots = {} THEN id
    ELSE LET i == Max(dots) IN
         IF i < Len(id) THEN SubSeq(id, 1, i - 1) ELSE id

\* ------------------------------------------------------------------------
\* Top-level terms (cell 1), in dict insertion order
\* ------------------------------------------------------------------------
topLevelTerms ==
    << <<"A", "Anatomy">>,
       <<"B", "Organisms">>,
       <<"C", "Diseases">>,
       <<"D", "Chemicals and Drugs">>,
       <<"E", "Analytical, Diagnostic and Therapeutic Techniques, and Equipment">>,
       <<"F", "Psychiatry and Psychology">>,
       <<"G", "Phenomena and Processes">>,
       <<"H", "Disciplines and Occupations">>,
       <<"I", "Anthropology, Education, Sociology, and Social Phenomena">>,
       <<"J", "Technology, Industry, and Agriculture">>,
       <<"K", "Humanities">>,
       <<"L", "Information Science">>,
       <<"M", "Named Groups">>,
       <<"N", "Health Care">>,
       <<"V", "Publication Characteristics">>,
       <<"Z", "Geographicals">> >>

\* ------------------------------------------------------------------------
\* Entries: defaultdict(list), a function from keys to value sequences
\* ------------------------------------------------------------------------
EmptyDict == <<>>

\* entry[key] of a defaultdict(list): a missing key reads as the empty list
Get(d, k) == IF k \in DOMAIN d THEN d[k] ELSE <<>>

\* entry[key].append(value)
AppendValue(d, k, v) ==
    [q \in (DOMAIN d) \cup {k} |-> IF q = k THEN Get(d, k) \o <<v>> ELSE d[q]]

\* the generator's local `entry`: None, or a dict
NoEntry == [none |-> TRUE, dict |-> EmptyDict]

Opened(d) == [none |-> FALSE, dict |-> d]

\* variant: `if entry is not None:`
Truthy_NotNone(e) == ~e.none

\* `if entry:` is false for None and for a dict without keys
Truthy(e) == ~e.none /\ DOMAIN e.dict # {}

provideEntry(id, name) ==
    AppendValue(AppendValue(EmptyDict, K_UI, <<id>>), K_MH, <<name>>)

\* ------------------------------------------------------------------------
\* Pass 1 loop body (cell 3): parentList[tree] = entry['UI'][0]
\* ------------------------------------------------------------------------
NoErr == "none"

\* variant: `if tree not in parentList: parentList[tree] = ...`
RECURSIVE BuildLoop_FirstWins(_, _, _)
BuildLoop_FirstWins(mn, ui, pl) ==
    IF mn = <<>> THEN pl
    ELSE BuildLoop_FirstWins(Tail(mn), ui,
                   [t \in (DOMAIN pl) \cup {Head(mn)} |->
                       IF t \in DOMAIN pl THEN pl[t] ELSE ui])

RECURSIVE BuildLoop(_, _, _)
BuildLoop(mn, ui, pl) ==
    IF mn = <<>> THEN pl
    ELSE BuildLoop(Tail(mn), ui,
                   [t \in (DOMAIN pl) \cup {Head(mn)} |->
                       IF t = Head(mn) THEN ui ELSE pl[t]])

BuildBody(e, pl) ==
    LET mn == Get(e, K_MN)
        ui == Get(e, K_UI) IN
    IF mn = <<>> THEN [pl |-> pl, err |-> NoErr]
    ELSE IF ui = <<>> THEN [pl |-> pl, err |-> "IndexError"]
    ELSE [pl |-> BuildLoop(mn, ui[1], pl), err |-> NoErr]

\* ------------------------------------------------------------------------
\* getParent (cell 3)
\* ------------------------------------------------------------------------
HasDot(id) == \E i \in 1..Len(id) : id[i] = DOT

ParentValue(v) == [kind |-> "value", val |-> v]

ParentNone == [kind |-> "None", val |-> <<>>]

ParentKeyError == [kind |-> "KeyError", val |-> <<>>]

\* variant: `parent = id[:2]` in the 3-character branch
getParent_Slice(id, pl) ==
    IF HasDot(id)
    THEN LET key == StripLastSegment(id) IN
         IF key \in DOMAIN pl THEN ParentValue(pl[key]) ELSE ParentKeyError
    ELSE IF Len(id) = 3 THEN ParentValue(SubSeq(id, 1, 2))
    ELSE ParentNone

\* variant: `parentList.get(key, key)` in the dotted branch
getParent_Default(id, pl) ==
    IF HasDot(id)
    THEN LET key == StripLastSegment(id) IN
         IF key \in DOMAIN pl THEN ParentValue(pl[key]) ELSE ParentValue(key)
    ELSE IF Len(id) = 3 THEN ParentValue(<<id[1]>>)
    ELSE ParentNone

getParent(id, pl) ==
    IF HasDot(id)
    THEN LET key == StripLastSegment(id) IN
         IF key \in DOMAIN pl THEN ParentValue(pl[key]) ELSE ParentKeyError
    ELSE IF Len(id) = 3 THEN ParentValue(<<id[1]>>)
    ELSE ParentNone

\* ------------------------------------------------------------------------
\* Pass 2 loop body (cell 4): one stanza printed to fo
\* ------------------------------------------------------------------------
\* a printed line: prefix + value + suffix
Line(pre, val, suf) == [pre |-> pre, val |-> val, suf |-> suf]

TermLine == Line("[Term]", <<>>, "")

BlankLine == Line("", <<>>, "")

IdLine(v) == Line("id: ", v, "")

NameLine(v) == Line("name: ", v, "")

SynonymLine(v) == Line("synonym: \"", v, "\" EXACT []")

IsaLine(v) == Line("is_a: ", v, "")

InSeq(x, s) == \E i \in 1..Len(s) : s[i] = x

\* variant: the loop without `if parentId not in done`
RECURSIVE IsaLoop_NoDedup(_, _, _, _)
IsaLoop_NoDedup(mn, pl, done, lines) ==
    IF mn = <<>> THEN [lines |-> lines, err |-> NoErr]
    ELSE LET p == getParent(Head(mn), pl) IN
         IF p.kind = "KeyError" THEN [lines |-> lines, err |-> "KeyError"]
         ELSE IF p.kind = "None"
              THEN [lines |-> lines, err |-> "TypeError_concat"]
         ELSE IsaLoop_NoDedup(Tail(mn), pl, Append(done, p.val),
                              Append(lines, IsaLine(p.val)))

\* for tree in entry['MN']: parentId = getParent(tree); if parentId not in
\* done: print("is_a: " + parentId); done.append(parentId)
RECURSIVE IsaLoop(_, _, _, _)
IsaLoop(mn, pl, done, lines) ==
    IF mn = <<>> THEN [lines |-> lines, err |-> NoErr]
    ELSE LET p == getParent(Head(mn), pl) IN
         IF p.kind = "KeyError" THEN [lines |-> lines, err |-> "KeyError"]
         ELSE IF p.kind = "None"
              \* None is never in done (nothing was appended before the
              \* raise), and "is_a: " + None raises TypeError
              THEN [lines |-> lines, err |-> "TypeError_concat"]
         ELSE IF InSeq(p.val, done)
              THEN IsaLoop(Tail(mn), pl, done, lines)
         ELSE IsaLoop(Tail(mn), pl, Append(done, p.val),
                      Append(lines, IsaLine(p.val)))

SynonymLines(entries) ==
    [i \in 1..Len(entries) |-> SynonymLine(StripQualifier(entries[i]))]

EmitBody(e, pl) ==
    LET ui == Get(e, K_UI)
        mh == Get(e, K_MH)
        l1 == <<TermLine>> IN
    IF ui = <<>> THEN [lines |-> l1, err |-> "IndexError"]
    ELSE LET l2 == Append(l1, IdLine(ui[1])) IN
    IF mh = <<>> THEN [lines |-> l2, err |-> "IndexError"]
    ELSE LET l3 == Append(l2, NameLine(mh[1])) \o SynonymLines(Get(e, K_ENTRY))
             r  == IsaLoop(Get(e, K_MN), pl, <<>>, <<>>) IN
         IF r.err # NoErr THEN [lines |-> l3 \o r.lines, err |-> r.err]
         ELSE [lines |-> Append(l3 \o r.lines, BlankLine), err |-> NoErr]

\* ------------------------------------------------------------------------
\* Input files explored: data/d2018.bin is any file built either from at
\* most MaxRecords record blocks or from at most MaxLines single lines
\* ------------------------------------------------------------------------
KV(key, val) == key \o Separator \o val

T_C06 == <<"C", "0", "6">>

T_C06_1 == <<"C", "0", "6", ".", "1">>

T_C06_2 == <<"C", "0", "6", ".", "2">>

T_C0 == <<"C", "0">>

T_X06 == <<"X", "0", "6">>

T_C_1 == <<"C", ".", "1">>

T_C06_ == <<"C", "0", "6", ".">>

U_D1 == <<"D", "1">>

U_D2 == <<"D", "2">>

U_D3 == <<"D", "3">>

N_n == <<"n">>

E_s == <<"s", "|", "q">>

RecordBlock(uis, mhs, entries, mns) ==
    <<Sentinel>>
    \o [i \in 1..Len(uis) |-> KV(K_UI, uis[i])]
    \o [i \in 1..Len(mhs) |-> KV(K_MH, mhs[i])]
    \o [i \in 1..Len(entries) |-> KV(K_ENTRY, entries[i])]
    \o [i \in 1..Len(mns) |-> KV(K_MN, mns[i])]

RecordBlocks ==
    { RecordBlock(<<U_D1>>, <<N_n>>, <<E_s>>, <<T_C06>>),
      RecordBlock(<<U_D2>>, <<N_n>>, <<>>, <<T_C06>>),
      RecordBlock(<<U_D3>>, <<N_n>>, <<>>, <<T_C06_1, T_C06_2>>),
      RecordBlock(<<U_D3>>, <<N_n>>, <<>>, <<T_C06_1, T_C06>>),
      RecordBlock(<<U_D3>>, <<N_n>>, <<>>, <<T_C0>>),
      RecordBlock(<<U_D3>>, <<N_n>>, <<>>, <<T_X06>>),
      RecordBlock(<<U_D3>>, <<N_n>>, <<>>, <<T_C_1>>),
      RecordBlock(<<U_D3>>, <<N_n>>, <<>>, <<T_C06_>>),
      RecordBlock(<<U_D3>>, <<N_n>>, <<>>, <<>>),
      RecordBlock(<<>>, <<N_n>>, <<>>, <<T_C06>>),
      RecordBlock(<<U_D3>>, <<>>, <<>>, <<>>) }

RawLines ==
    { <<SP>>,
      Sentinel,
      KV(K_UI, U_D1) \o <<SP>>,
      KV(K_MH, N_n),
      KV(K_MN, T_C06),
      <<"j">> }

SeqsUpTo(S, n) == UNION {[1..k -> S] : k \in 0..n}

RECURSIVE Flatten(_)
Flatten(ss) == IF ss = <<>> THEN <<>> ELSE Head(ss) \o Flatten(Tail(ss))

InputFiles ==
    {Flatten(bs) : bs \in SeqsUpTo(RecordBlocks, MaxRecords)}
    \cup SeqsUpTo(RawLines, MaxLines)

\* ------------------------------------------------------------------------
\* State machine
\*   pc = "open" : about to run the `with open(...)` of cell 3 (pass = 1)
\*                 or of cell 4 (pass = 2)
\*   pc = "gen"  : inside `for entry in readMeSH(infile)`
\*   pc = "done" : print('done') was executed
\*   pc = "error": an exception left the cell
\* ------------------------------------------------------------------------
Init ==
    /\ file \in InputFiles
    /\ pc = "open"
    /\ pass = 1
    /\ ti = 0
    /\ pos = 0
    /\ entry = NoEntry
    /\ yielded = <<>>
    /\ parentList = <<>>
    /\ out = <<>>
    /\ inOpen = FALSE
    /\ foOpen = FALSE
    /\ err = NoErr

\* cell 3: parentList = {}; with open(...) as infile; readMeSH(infile)
OpenPass1 ==
    /\ pc = "open" /\ pass = 1
    /\ parentList' = <<>>
    /\ inOpen' = TRUE
    /\ pc' = "gen"
    /\ ti' = 0 /\ pos' = 0 /\ entry' = NoEntry /\ yielded' = <<>>
    /\ UNCHANGED <<file, pass, out, foOpen, err>>

\* cell 4: fo = open(..., 'w'); with open(...) as infile; readMeSH(infile)
OpenPass2 ==
    /\ pc = "open" /\ pass = 2
    /\ foOpen' = TRUE
    /\ inOpen' = TRUE
    /\ pc' = "gen"
    /\ ti' = 0 /\ pos' = 0 /\ entry' = NoEntry /\ yielded' = <<>>
    /\ UNCHANGED <<file, pass, parentList, out, err>>

\* the loop body of the running cell applied to a yielded entry
Consume(e) ==
    IF pass = 1
    THEN LET b == BuildBody(e, parentList) IN
         [pl |-> b.pl, out |-> out, err |-> b.err]
    ELSE LET b == EmitBody(e, parentList) IN
         [pl |-> parentList, out |-> out \o b.lines, err |-> b.err]

\* an exception leaves the `with` block: infile is closed by the context
\* manager, fo is left as it is
Raise(e) ==
    /\ pc' = "error"
    /\ err' = e
    /\ inOpen' = FALSE
    /\ UNCHANGED <<pass, foOpen>>

\* readMeSH, `for id, name in topLevelTerms.items(): yield provideEntry(..)`
YieldTopLevel ==
    /\ pc = "gen" /\ ti < Len(topLevelTerms)
    /\ LET e == provideEntry(topLevelTerms[ti + 1][1], topLevelTerms[ti + 1][2])
           r == Consume(e) IN
       /\ yielded' = Append(yielded, e)
       /\ parentList' = r.pl
       /\ out' = r.out
       /\ IF r.err # NoErr THEN Raise(r.err)
          ELSE UNCHANGED <<pc, err, inOpen, pass, foOpen>>
    /\ ti' = ti + 1
    /\ UNCHANGED <<file, pos, entry>>

Reading == pc = "gen" /\ ti = Len(topLevelTerms) /\ pos < Len(file)

\* readMeSH, `if not line: continue`
ReadBlank ==
    /\ Reading
    /\ Strip(file[pos + 1]) = <<>>
    /\ pos' = pos + 1
    /\ UNCHANGED <<file, pc, pass, ti, entry, yielded, parentList, out,
                   inOpen, foOpen, err>>

\* readMeSH, `if line == "*NEWRECORD"`
ReadSentinel ==
    /\ Reading
    /\ Strip(file[pos + 1]) = Sentinel
    /\ pos' = pos + 1
    /\ IF Truthy(entry)
       THEN LET r == Consume(entry.dict) IN
            /\ yielded' = Append(yielded, entry.dict)
            /\ parentList' = r.pl
            /\ out' = r.out
            /\ IF r.err # NoErr
               THEN Raise(r.err) /\ entry' = entry
               ELSE /\ entry' = Opened(EmptyDict)
                    /\ UNCHANGED <<pc, err, inOpen, pass, foOpen>>
       ELSE /\ entry' = Opened(EmptyDict)
            /\ UNCHANGED <<yielded, parentList, out, pc, err, inOpen, pass,
                           foOpen>>
    /\ UNCHANGED <<file, ti>>

\* readMeSH, `key, _, value = line.partition(" = ")` and
\* `entry[key].append(value)`; entry is still None before the first
\* sentinel, and None[key] raises TypeError
ReadField ==
    /\ Reading
    /\ LET line == Strip(file[pos + 1]) IN
       /\ line # <<>>
       /\ line # Sentinel
       /\ IF entry.none
          THEN Raise("TypeError_subscript") /\ entry' = entry
          ELSE /\ entry' = Opened(AppendValue(entry.dict, Partition(line).key,
                                              Partition(line).value))
               /\ UNCHANGED <<pc, err, inOpen, pass, foOpen>>
    /\ pos' = pos + 1
    /\ UNCHANGED <<file, ti, yielded, parentList, out>>

\* variant: readMeSH without the final `if entry: yield entry`
EndOfInput_NoFinalYield ==
    /\ pc = "gen" /\ ti = Len(topLevelTerms) /\ pos = Len(file)
    /\ inOpen' = FALSE
    /\ IF pass = 1 THEN pc' = "open" /\ pass' = 2
                   ELSE pc' = "done" /\ pass' = pass
    /\ UNCHANGED <<file, ti, pos, entry, yielded, parentList, out, foOpen, err>>

\* readMeSH, end of `for line in fin`: `if entry: yield entry`; then the
\* `with` block ends (infile closed) and the cell finishes
EndOfInput ==
    /\ pc = "gen" /\ ti = Len(topLevelTerms) /\ pos = Len(file)
    /\ LET r == IF Truthy(entry) THEN Consume(entry.dict)
                ELSE [pl |-> parentList, out |-> out, err |-> NoErr] IN
       /\ yielded' = IF Truthy(entry) THEN Append(yielded, entry.dict)
                     ELSE yielded
       /\ parentList' = r.pl
       /\ out' = r.out
       /\ IF r.err # NoErr THEN Raise(r.err)
          ELSE /\ inOpen' = FALSE
               /\ err' = err
               /\ foOpen' = foOpen
               /\ IF pass = 1 THEN pc' = "open" /\ pass' = 2
                              ELSE pc' = "done" /\ pass' = pass
    /\ UNCHANGED <<file, ti, pos, entry>>

Next ==
    \/ OpenPass1
    \/ OpenPass2
    \/ YieldTopLevel
    \/ ReadBlank
    \/ ReadSentinel
    \/ ReadField
    \/ EndOfInput

Spec == Init /\ [][Next]_vars

TypeOK ==
    /\ pc \in {"open", "gen", "done", "error"}
    /\ pass \in {1, 2}
    /\ ti \in 0..Len(topLevelTerms)
    /\ pos \in 0..Len(file)
    /\ inOpen \in BOOLEAN /\ foOpen \in BOOLEAN
    /\ (pc = "error") = (err # NoErr)

\* ========================================================================
\* Vocabulary of the properties: the source data and the output, described
\* from the file and from the printed lines
\* ========================================================================
Range(s) == {s[i] : i \in 1..Len(s)}

NTop == Len(topLevelTerms)

\* the non-blank lines, stripped
RECURSIVE CleanLines(_)
CleanLines(f) ==
    IF f = <<>> THEN <<>>
    ELSE IF Strip(Head(f)) = <<>> THEN CleanLines(Tail(f))
    ELSE <<Strip(Head(f))>> \o CleanLines(Tail(f))

RECURSIVE TakeFields(_)
TakeFields(ls) ==
    IF ls = <<>> \/ Head(ls) = Sentinel THEN <<>>
    ELSE <<Head(ls)>> \o TakeFields(Tail(ls))

RECURSIVE DropFields(_)
DropFields(ls) ==
    IF ls = <<>> \/ Head(ls) = Sentinel THEN ls ELSE DropFields(Tail(ls))

\* one block of field lines per sentinel line, in input order
RECURSIVE Blocks(_)
Blocks(ls) ==
    IF ls = <<>> THEN <<>>
    ELSE IF Head(ls) = Sentinel
         THEN <<TakeFields(Tail(ls))>> \o Blocks(DropFields(Tail(ls)))
         ELSE Blocks(Tail(ls))

\* a field line reads key, " = ", value at the first " = "
HasSep(l) == \E i \in 1..(Len(l) - 2) : l[i] = " " /\ l[i + 1] = "=" /\ l[i + 2] = " "

SepAt(l) ==
    CHOOSE i \in 1..(Len(l) - 2) :
        /\ l[i] = " " /\ l[i + 1] = "=" /\ l[i + 2] = " "
        /\ \A j \in 1..(i - 1) : ~(l[j] = " " /\ l[j + 1] = "=" /\ l[j + 2] = " ")

KeyOf(l) == IF HasSep(l) THEN SubSeq(l, 1, SepAt(l) - 1) ELSE l

ValueOf(l) == IF HasSep(l) THEN SubSeq(l, SepAt(l) + 3, Len(l)) ELSE <<>>

RECURSIVE ValuesIn(_, _)
ValuesIn(block, k) ==
    IF block = <<>> THEN <<>>
    ELSE IF KeyOf(Head(block)) = k
         THEN <<ValueOf(Head(block))>> \o ValuesIn(Tail(block), k)
         ELSE ValuesIn(Tail(block), k)

DictOf(block) ==
    [k \in {KeyOf(l) : l \in Range(block)} |-> ValuesIn(block, k)]

RECURSIVE NonEmpty(_)
NonEmpty(bs) ==
    IF bs = <<>> THEN <<>>
    ELSE IF Head(bs) = <<>> THEN NonEmpty(Tail(bs))
    ELSE <<Head(bs)>> \o NonEmpty(Tail(bs))

\* the source records of the file: the blocks that hold at least one line
RecordsOf(f) == NonEmpty(Blocks(CleanLines(f)))

SrcRecords == RecordsOf(file)

TopLevelEntries(n) ==
    [i \in 1..n |-> [k \in {K_UI, K_MH} |->
        IF k = K_UI THEN <<<<topLevelTerms[i][1]>>>>
        ELSE <<<<topLevelTerms[i][2]>>>>]]

TopLevelCodes == [i \in 1..NTop |-> <<topLevelTerms[i][1]>>]

\* the tree positions of the record behind the k-th stanza (the top-level
\* entries come first and have none)
MNAt(recs, k) ==
    IF k <= NTop \/ k - NTop > Len(recs) THEN <<>>
    ELSE ValuesIn(recs[k - NTop], K_MN)

SrcMN(k) == MNAt(SrcRecords, k)

HasAt(recs, k, key) ==
    k <= NTop \/ (k - NTop <= Len(recs) /\ ValuesIn(recs[k - NTop], key) # <<>>)

\* the records that list tree position t among their MN values
Listing(t) ==
    {r \in 1..Len(SrcRecords) : t \in Range(ValuesIn(SrcRecords[r], K_MN))}

ListedPositions ==
    UNION {Range(ValuesIn(SrcRecords[r], K_MN)) : r \in 1..Len(SrcRecords)}

\* first UI of the last record of the whole input that lists t
LastListingUI(t) == ValuesIn(SrcRecords[Max(Listing(t))], K_UI)[1]

Dotted(t) == DOT \in Range(t)

\* a dotted position of the data model: its final segment is not empty
WellFormedDotted(t) == Dotted(t) /\ t[Len(t)] # DOT

\* t without its final dot-delimited segment
Truncated(t) ==
    CHOOSE p \in {SubSeq(t, 1, n) : n \in 0..Len(t)} :
        \E seg \in {SubSeq(t, n, Len(t)) : n \in 1..Len(t)} :
            /\ ~Dotted(seg)
            /\ t = p \o <<DOT>> \o seg

\* the stanzas of the output
\* the lines cut before every [Term] line
RECURSIVE Stanzas(_)
Stanzas(lines) ==
    IF Len(lines) <= 1 THEN (IF lines = <<>> THEN <<>> ELSE <<lines>>)
    ELSE LET h == Len(lines) \div 2
             a == Stanzas(SubSeq(lines, 1, h))
             b == Stanzas(SubSeq(lines, h + 1, Len(lines))) IN
         IF b[1][1] = TermLine THEN a \o b
         ELSE [a EXCEPT ![Len(a)] = @ \o b[1]] \o Tail(b)

NStanzas == Len(Stanzas(out))

Stanza(k) == Stanzas(out)[k]

ValuesWith(lines, pre) ==
    LET Test(l) == l.pre = pre
        sel == SelectSeq(lines, Test) IN
    [i \in 1..Len(sel) |-> sel[i].val]

IdValues(lines) == ValuesWith(lines, "id: ")

IsaValues(lines) == ValuesWith(lines, "is_a: ")

CompleteStanza(st) == st[Len(st)] = BlankLine

Complete(k) == CompleteStanza(Stanza(k))

NoRepeat(s) == \A i, j \in 1..Len(s) : s[i] = s[j] => i = j

\* s reduced to the first occurrence of each value
RECURSIVE FirstOccurrences(_)
FirstOccurrences(s) ==
    IF s = <<>> THEN <<>>
    ELSE LET r == FirstOccurrences(SubSeq(s, 1, Len(s) - 1)) IN
         IF s[Len(s)] \in Range(r) THEN r ELSE Append(r, s[Len(s)])

FirstValue(block, k) ==
    IF ValuesIn(block, k) = <<>> THEN <<>> ELSE ValuesIn(block, k)[1]

SrcIds == [r \in 1..Len(SrcRecords) |-> FirstValue(SrcRecords[r], K_UI)]

\* ========================================================================
\* Properties
\* ========================================================================

\* C1: when the conversion completes, the id: values of the output are, in
\* order, the top-level codes followed by the first UI of every source
\* record of the file; there are as many stanzas as records and each
\* stanza carries exactly one id: line.
C1_IdsInOrder ==
    pc = "done" =>
        /\ NStanzas = NTop + Len(SrcRecords)
        /\ IdValues(out) = TopLevelCodes \o SrcIds
        /\ \A k \in 1..NStanzas : Len(IdValues(Stanza(k))) = 1

C1_Witness ==
    /\ pc = "done"
    /\ Len(SrcRecords) >= 2
    /\ SrcIds[1] # SrcIds[2]
    /\ NStanzas = NTop + 2

\* the parents a sequence of tree positions resolves to, in order
ResolvedParents(mn) == [i \in 1..Len(mn) |-> getParent(mn[i], parentList).val]

\* C2: no stanza repeats a parent id in its is_a: lines, and a completed
\* stanza lists each distinct parent resolved from the record's MN entries
\* once, in the order of its first occurrence.
C2_IsaDeduplicated ==
    LET sts  == Stanzas(out)
        recs == SrcRecords IN
    \A k \in 1..Len(sts) :
        LET isa == IsaValues(sts[k]) IN
        /\ NoRepeat(isa)
        /\ CompleteStanza(sts[k]) =>
              isa = FirstOccurrences(ResolvedParents(MNAt(recs, k)))

C2_Witness ==
    /\ pc = "done"
    /\ \E k \in 1..NStanzas :
          /\ SrcMN(k) = <<T_C06_1, T_C06_2>>
          /\ Len(IsaValues(Stanza(k))) = 1

\* the maps getParent is tried on: the one built so far, the empty one and
\* one that holds the position itself and its first character
MapsFor(t) ==
    {parentList, <<>>, [x \in {t, SubSeq(t, 1, 1)} |-> U_D1]}

SrcAllMN == ValuesIn(CleanLines(file), K_MN)

\* C3 as stated: in the emit pass every tree position of exactly 3
\* characters resolves to its first character, whatever the map holds, and
\* that character is an is_a: value of every completed stanza of a record
\* that lists the position.
C3_ThreeCharsAnyPosition ==
    LET sts  == Stanzas(out)
        recs == SrcRecords IN
    /\ pass = 2 =>
          \A t \in Range(SrcAllMN) :
              Len(t) = 3 =>
                  \A m \in MapsFor(t) :
                      getParent(t, m) = ParentValue(SubSeq(t, 1, 1))
    /\ \A k \in 1..Len(sts) :
          CompleteStanza(sts[k]) =>
              \A t \in Range(MNAt(recs, k)) :
                  Len(t) = 3 => SubSeq(t, 1, 1) \in Range(IsaValues(sts[k]))

\* C3 (amended): in the emit pass every tree position of exactly 3
\* characters that contains no `.` resolves to its first character, whatever the map holds, and that
\* character is an is_a: value of every completed stanza of a record that
\* lists the position.
C3_ThreeCharsNoDot ==
    LET sts  == Stanzas(out)
        recs == SrcRecords IN
    /\ pass = 2 =>
          \A t \in Range(SrcAllMN) :
              (Len(t) = 3 /\ ~Dotted(t)) =>
                  \A m \in MapsFor(t) :
                      getParent(t, m) = ParentValue(SubSeq(t, 1, 1))
    /\ \A k \in 1..Len(sts) :
          CompleteStanza(sts[k]) =>
              \A t \in Range(MNAt(recs, k)) :
                  (Len(t) = 3 /\ ~Dotted(t)) =>
                      SubSeq(t, 1, 1) \in Range(IsaValues(sts[k]))

C3_Witness ==
    /\ pc = "done"
    /\ \E k \in 1..NStanzas :
          /\ T_C06 \in Range(SrcMN(k))
          /\ T_C06 \in DOMAIN parentList
          /\ <<"C">> \in Range(IsaValues(Stanza(k)))

\* the map of the whole input: every listed position to the first UI of the
\* last record that lists it
ExpectedMap ==
    [t \in ListedPositions |-> FirstValue(SrcRecords[Max(Listing(t))], K_UI)]

NoParent(t) == ~Dotted(t) /\ Len(t) # 3

\* a dotted position whose truncated position no record lists
Dangling(t) == WellFormedDotted(t) /\ Listing(Truncated(t)) = {}

\* position i is the first of mn on which the lookup does not give a parent
FirstStop(mn, i) ==
    \A j \in 1..(i - 1) : ~Dangling(mn[j]) /\ ~NoParent(mn[j])

\* C5 as stated: a dotless position of a length other than 3 has no parent,
\* and a record with UI and MH whose positions all have no parent gets a
\* complete stanza without is_a: line and the conversion goes on.
C5_NoParentNoIsa ==
    LET sts  == Stanzas(out)
        recs == SrcRecords IN
    /\ \A t \in Range(SrcAllMN) :
          NoParent(t) => getParent(t, parentList) = ParentNone
    /\ \A k \in (NTop + 1)..Len(sts) :
          (/\ HasAt(recs, k, K_UI) /\ HasAt(recs, k, K_MH)
           /\ \A t \in Range(MNAt(recs, k)) : NoParent(t)) =>
              /\ CompleteStanza(sts[k])
              /\ IsaValues(sts[k]) = <<>>
              /\ ~(pc = "error" /\ k = Len(sts))

C7_ReleasedOnExit ==
    pc \in {"done", "error"} => (~inOpen /\ ~foOpen)

\* C10 as stated: in a completed conversion every is_a: value is the id: of
\* an emitted stanza.
C10_ReferentialIntegrity ==
    pc = "done" =>
        \A v \in Range(IsaValues(out)) : v \in Range(IdValues(out))

\* the parser seen from the lines consumed so far
ConsumedBlocks == Blocks(CleanLines(SubSeq(file, 1, pos)))

PassFinished == (pc = "open" /\ pass = 2) \/ pc = "done"

ClosedBlocks ==
    IF PassFinished \/ ConsumedBlocks = <<>> THEN ConsumedBlocks
    ELSE SubSeq(ConsumedBlocks, 1, Len(ConsumedBlocks) - 1)

ExpectedEntry ==
    IF ConsumedBlocks = <<>> THEN NoEntry
    ELSE Opened(DictOf(ConsumedBlocks[Len(ConsumedBlocks)]))

DictsOf(bs) == [i \in 1..Len(bs) |-> DictOf(bs[i])]

\* the blocks closed by a later sentinel line, and the last block once the
\* input has ended
BlocksClosedBySentinel ==
    IF ConsumedBlocks = <<>> THEN <<>>
    ELSE SubSeq(ConsumedBlocks, 1, Len(ConsumedBlocks) - 1)

LastBlockAtEnd ==
    IF PassFinished /\ ConsumedBlocks # <<>>
    THEN <<ConsumedBlocks[Len(ConsumedBlocks)]>>
    ELSE <<>>

\* C8 as stated: a sentinel line yields the record that is open, with or
\* without fields, and the end of the input yields the open record if it
\* is not empty; so every record closed by a sentinel is yielded once, in
\* input order, after the top-level records, with its values in source
\* order, and the open record is the block of the last sentinel.
C8_EveryOpenedRecordYielded ==
    pc # "error" =>
        /\ yielded = TopLevelEntries(ti)
                        \o DictsOf(BlocksClosedBySentinel)
                        \o DictsOf(NonEmpty(LastBlockAtEnd))
        /\ entry = ExpectedEntry

\* C8 (amended): blank lines change nothing; a sentinel line yields the open
\* record only if it holds at least one field and opens an empty one; every
\* other line read while a record is open appends its value to its key; at
\* end of input an open non-empty record is yielded.  So every
\* sentinel-opened record that received at least one field line is yielded
\* once, in input order, after the top-level records, with its values in
\* source order, and a record that received none is never yielded.
C8_NonEmptyRecordsYielded ==
    pc # "error" =>
        /\ yielded = TopLevelEntries(ti) \o DictsOf(NonEmpty(ClosedBlocks))
        /\ entry = ExpectedEntry

C8_Witness ==
    /\ PassFinished
    /\ \E i \in 1..Len(file) : Strip(file[i]) = <<>>
    /\ \E i \in 1..Len(ConsumedBlocks) : ConsumedBlocks[i] = <<>>
    /\ Len(SrcRecords) >= 1
    /\ Len(yielded) = NTop + Len(SrcRecords)

Malformed(l) == l # <<>> /\ l # Sentinel /\ ~HasSep(l)

\* C9 as stated: a consumed non-blank, non-sentinel line without separator
\* never stops the parser, wherever it stands, and is recorded as a key
\* with an empty value in the record that was current.
C9_MalformedTolerated ==
    \A i \in 1..pos :
        LET l == Strip(file[i]) IN
        Malformed(l) =>
            /\ ~(i = pos /\ err = "TypeError_subscript")
            /\ \E d \in Range(yielded) \cup {entry.dict} :
                  l \in DOMAIN d /\ <<>> \in Range(d[l])

====
